---- MODULE Spec2Model ----
(***************************************************************************)
(* doc-pro: the asynchronous document pipeline of src/doc_pro.             *)
(*                                                                         *)
(*   worker.py  the job queue, the worker loop, the Parse and Translate    *)
(*              jobs, the normalizer and the chunker                       *)
(*   main.py    the request handlers that create documents and enqueue     *)
(*              jobs                                                       *)
(*   db.py      the store: every execute / executemany / fetch is its own  *)
(*              connection and its own commit                              *)
(*                                                                         *)
(* A worker thread advances by one storage statement per step, so the      *)
(* states between two statements of a job are states of the model.  A      *)
(* storage statement either commits or raises and changes nothing          *)
(* (db.py: the connection's context manager rolls back).  The extraction   *)
(* and translation collaborators are inputs: they return or raise.         *)
(*                                                                         *)
(* Columns no statement of worker.py reads (user_id, filename,             *)
(* created_at, updated_at, embedding_status) are left out of the rows.     *)
(***************************************************************************)
EXTENDS Integers, Sequences, FiniteSets, TLC

(***************************************************************************)
(* Bounds of the exploration.                                              *)
(***************************************************************************)
MaxDocs == 2        \* documents created
MaxJobs == 3        \* jobs submitted over a run
MaxThreads == 2     \* thread slots start_worker can fill
MaxCallers == 2     \* threads that call start_worker
MaxSteps == 3       \* longest run of one character in a text, in steps
MaxIterations == 16 \* iterations of the chunking loop that are followed

(***************************************************************************)
(* Program constants.                                                      *)
(***************************************************************************)
CHUNK_SIZE == 800
CHUNK_OVERLAP == 160

NULL == "NULL"      \* SQL NULL / Python None

(***************************************************************************)
(* Text.  A string is held as its runs: <<c, n>> is n >= 1 copies of the   *)
(* character c, and neighbouring runs have different characters, so two    *)
(* strings are equal exactly when their runs are.                          *)
(***************************************************************************)
Whitespace == {" ", "\n"}

\* s + t
Cat(s, t) ==
    IF s = <<>> THEN t
    ELSE IF t = <<>> THEN s
    ELSE IF s[Len(s)][1] = t[1][1]
    THEN SubSeq(s, 1, Len(s) - 1)
             \o <<<<t[1][1], s[Len(s)][2] + t[1][2]>>>> \o Tail(t)
    ELSE s \o t

\* len(text)
RECURSIVE len(_)
len(text) == IF text = <<>> THEN 0 ELSE text[1][2] + len(Tail(text))

\* text[k:]
RECURSIVE Drop(_, _)
Drop(text, k) ==
    IF k <= 0 \/ text = <<>> THEN text
    ELSE IF k >= text[1][2] THEN Drop(Tail(text), k - text[1][2])
    ELSE <<<<text[1][1], text[1][2] - k>>>> \o Tail(text)

\* text[:k]
RECURSIVE Take(_, _)
Take(text, k) ==
    IF k <= 0 \/ text = <<>> THEN <<>>
    ELSE IF k >= text[1][2] THEN <<text[1]>> \o Take(Tail(text), k - text[1][2])
    ELSE <<<<text[1][1], k>>>>

\* text[a:b], 0-based and half-open
Slice(text, a, b) == Take(Drop(text, a), b - a)

\* str.strip()
RECURSIVE lstrip(_)
lstrip(text) ==
    IF text # <<>> /\ text[1][1] \in Whitespace THEN lstrip(Tail(text)) ELSE text

RECURSIVE rstrip(_)
rstrip(text) ==
    IF text # <<>> /\ text[Len(text)][1] \in Whitespace
    THEN rstrip(SubSeq(text, 1, Len(text) - 1)) ELSE text

strip(text) == rstrip(lstrip(text))

\* str.splitlines() of the rest of a text, line being the line read so far
RECURSIVE splitlines_from(_, _)
splitlines_from(text, line) ==
    IF text = <<>> THEN (IF line = <<>> THEN <<>> ELSE <<line>>)
    ELSE IF text[1][1] = "\n"
    THEN <<line>> \o [i \in 1..text[1][2] - 1 |-> <<>>]
             \o splitlines_from(Tail(text), <<>>)
    ELSE splitlines_from(Tail(text), Append(line, text[1]))

splitlines(text) == splitlines_from(text, <<>>)

\* "\n".join(lines)
RECURSIVE join(_)
join(lines) ==
    IF lines = <<>> THEN <<>>
    ELSE IF Len(lines) = 1 THEN lines[1]
    ELSE Cat(lines[1], Cat(<<<<"\n", 1>>>>, join(Tail(lines))))

_normalize_text(text) ==
    LET lines == [i \in 1..Len(splitlines(text)) |-> strip(splitlines(text)[i])]
        non_empty == SelectSeq(lines, LAMBDA line : line # <<>>)
    IN  join(non_empty)

\* the while loop of _split_text, entered with the offset start
RECURSIVE split_loop(_, _)
split_loop(text, start) ==
    IF ~(start < len(text)) THEN <<>>
    ELSE LET end == IF start + CHUNK_SIZE < len(text)
                    THEN start + CHUNK_SIZE ELSE len(text)
             chunk == strip(Slice(text, start, end))
             here == IF chunk # <<>> THEN <<chunk>> ELSE <<>>
             step == CHUNK_SIZE - CHUNK_OVERLAP
         IN  IF end = len(text) THEN here
             ELSE here \o split_loop(text, start + step)

_split_text(text) ==
    IF strip(text) = <<>> THEN <<>> ELSE split_loop(text, 0)

(***************************************************************************)
(* The uploaded files and what PdfReader reads from them: the text of      *)
(* each page as page.extract_text() or "" gives it.                        *)
(***************************************************************************)
RawLong == << <<"a", 700>>, <<" ", 1>>, <<"b", 299>> >>
RawShort == << <<" ", 1>>, <<"a", 1>>, <<" ", 1>>, <<"\n", 1>>, <<" ", 1>>,
               <<"\n", 1>>, <<"b", 1>>, <<" ", 1>> >>
RawBlank == << <<" ", 1>>, <<"\n", 1>>, <<" ", 1>> >>

\* data/uploads: the pages of the file at each path
UPLOAD_DIR == << <<RawLong, RawShort>>, <<RawBlank>> >>

\* the optional page of a Translate job: None, or one page number
None == <<>>
PageArgs == {None, <<1>>, <<2>>}

MissingDoc == 0     \* a document id with no row in documents

VARIABLES
    documents,          \* table documents: row i is the document with id i
    document_chunks,    \* table document_chunks: a set of rows
    _job_queue,         \* queue.Queue of jobs
    _worker_started,    \* the module flag start_worker sets
    worker,             \* the threads start_worker started, with their locals
    next_uuid,          \* uuid4 values drawn so far
    submitted,          \* history: every job put on the queue, in order
    started,            \* history: every job the worker took, in order
    responses,          \* history: the answer to every translation request
    split,              \* one call of _split_text: its locals and its trace
    _worker_lock,       \* threading.Lock: 0, or the caller that holds it
    callers             \* where each caller of start_worker stands

\* the state the request handlers and the worker thread do not touch
outside == <<split, _worker_lock, callers>>

vars == <<documents, document_chunks, _job_queue, _worker_started,
          worker, next_uuid, submitted, started, responses, outside>>

Threads == 1..MaxThreads

Callers == 1..MaxCallers

\* the requests and calls made so far: the jobs put on the queue and the
\* translation requests that were refused
Requests ==
    Len(submitted)
      + Cardinality({i \in DOMAIN responses : responses[i].status_code # 200})

DocIds == 1..Len(documents)

NoThread == [pc |-> "none"]

\* a thread blocked in _job_queue.get(), with what its last job left behind
Idle(w, branch) == [w EXCEPT !.pc = "idle", !.branch = branch]

\* an exception left the job: it passes the finally of _run_worker and ends
\* the thread
Raised(w) == [w EXCEPT !.pc = "dead", !.branch = "raised"]

FreshWorker ==
    [pc |-> "idle", job_type |-> "", document_id |-> MissingDoc, page |-> None,
     pages |-> <<>>, chunks |-> <<>>, idx |-> 0, exc |-> NULL,
     \* history of the job: how it ended, the chunk ids the translation
     \* collaborator was called for, the texts written, the tables at its start
     branch |-> "", called |-> <<>>, wrote |-> <<>>,
     pre_documents |-> <<>>, pre_chunks |-> {}]

\* the store, the queue and the threads after the module is imported
InitPipeline ==
    /\ documents = <<>>
    /\ document_chunks = {}
    /\ _job_queue = <<>>
    /\ _worker_started = FALSE
    /\ worker = [t \in Threads |-> NoThread]
    /\ next_uuid = 0
    /\ submitted = <<>>
    /\ started = <<>>
    /\ responses = <<>>

\* no call of _split_text is under observation
NoSplit == [pc |-> "none"]

\* the lock is free and nobody is inside start_worker
InitStart ==
    /\ _worker_lock = 0
    /\ callers = [c \in Callers |-> "out"]

Init ==
    /\ InitPipeline
    /\ split = NoSplit
    /\ InitStart

(***************************************************************************)
(* Storage.                                                                *)
(***************************************************************************)
\* an UPDATE that inserts the row when no row has the id
UpdateDocument_upsert(document_id, fields) ==
    IF document_id \in DOMAIN documents
    THEN [documents EXCEPT ![document_id] = fields @@ @]
    ELSE Append(documents,
                fields @@ [file_path |-> 1, status |-> "uploaded",
                           page_count |-> NULL, error_message |-> NULL,
                           translation_status |-> "pending",
                           translation_error_message |-> NULL])

\* UPDATE documents SET <fields> WHERE id = document_id
UpdateDocument(document_id, fields) ==
    IF document_id \in DOMAIN documents
    THEN [documents EXCEPT ![document_id] = fields @@ @]
    ELSE documents

\* text_zh IS NULL OR text_zh = ''
Untranslated(c) == c.text_zh = NULL \/ c.text_zh = ""

\* the rows of a set in ascending (page, chunk_index) order; rows equal in
\* both, which no Parse job stores, come in id order
RECURSIVE OrderByPageIndex(_)
OrderByPageIndex(rows) ==
    IF rows = {} THEN <<>>
    ELSE LET first == CHOOSE c \in rows : \A o \in rows :
                          \/ c.page < o.page
                          \/ c.page = o.page /\ c.chunk_index < o.chunk_index
                          \/ c.page = o.page /\ c.chunk_index = o.chunk_index
                             /\ c.id <= o.id
         IN  <<first>> \o OrderByPageIndex(rows \ {first})

(***************************************************************************)
(* Queue.                                                                  *)
(***************************************************************************)
\* a queue that hands out the newest job first
put_front(job) ==
    /\ _job_queue' = <<job>> \o _job_queue
    /\ submitted' = Append(submitted, job)

put(job) ==
    /\ _job_queue' = Append(_job_queue, job)
    /\ submitted' = Append(submitted, job)

enqueue_document(document_id) ==
    put([job_type |-> "parse", document_id |-> document_id, page |-> None])

enqueue_translation(document_id, page) ==
    put([job_type |-> "translate", document_id |-> document_id, page |-> page])


(***************************************************************************)
(* main.py: the request handlers.                                          *)
(***************************************************************************)
ALLOWED_EXTENSIONS == {".pdf"}

\* POST /api/documents with a file of the given suffix, copied to target_path.
\* An INSERT that raises ends the request with no row and no job, as the
\* rejected suffix does.
create_document(suffix, target_path) ==
    /\ Len(documents) < MaxDocs
    /\ Requests < MaxJobs
    /\ IF suffix \notin ALLOWED_EXTENSIONS
       THEN UNCHANGED vars
       ELSE LET document_id == Len(documents) + 1
            IN  /\ documents' = Append(documents,
                       [file_path |-> target_path,
                        status |-> "uploaded", page_count |-> 0,
                        error_message |-> NULL,
                        translation_status |-> "pending",
                        translation_error_message |-> NULL])
                /\ enqueue_document(document_id)
                /\ UNCHANGED <<document_chunks, _worker_started, worker,
                               next_uuid, started, responses, outside>>

\* the answer of translate_document to the request for (document_id, page)
respond(document_id, page, status_code) ==
    responses' = Append(responses, [document_id |-> document_id, page |-> page,
                                    status_code |-> status_code])

\* a handler that puts the job whatever the status of the row is
translate_document_no_conflict(document_id, page) ==
    /\ Requests < MaxJobs
    /\ IF document_id \notin DOMAIN documents
       THEN /\ respond(document_id, page, 404)
            /\ UNCHANGED <<documents, document_chunks, _job_queue,
                           _worker_started, worker, next_uuid, submitted,
                           started, outside>>
       ELSE /\ enqueue_translation(document_id, page)
            /\ respond(document_id, page, 200)
            /\ UNCHANGED <<documents, document_chunks,
                           _worker_started, worker, next_uuid, started, outside>>

\* POST /api/documents/{document_id}/translate: the fetch of the row and the
\* put are one step; the job carries no trace of the status that was read
translate_document(document_id, page) ==
    /\ Requests < MaxJobs
    /\ IF document_id \notin DOMAIN documents
       THEN /\ respond(document_id, page, 404)
            /\ UNCHANGED <<documents, document_chunks, _job_queue,
                           _worker_started, worker, next_uuid, submitted,
                           started, outside>>
       ELSE IF documents[document_id].status # "ready"
       THEN /\ respond(document_id, page, 409)
            /\ UNCHANGED <<documents, document_chunks, _job_queue,
                           _worker_started, worker, next_uuid, submitted,
                           started, outside>>
       ELSE /\ enqueue_translation(document_id, page)
            /\ respond(document_id, page, 200)
            /\ UNCHANGED <<documents, document_chunks,
                           _worker_started, worker, next_uuid, started, outside>>

\* any other caller of the worker module's enqueue functions (a retry, a
\* re-parse): no check stands between it and the queue
call_enqueue_document(document_id) ==
    /\ Requests < MaxJobs
    /\ enqueue_document(document_id)
    /\ UNCHANGED <<documents, document_chunks, _worker_started,
                   worker, next_uuid, started, responses, outside>>

call_enqueue_translation(document_id, page) ==
    /\ Requests < MaxJobs
    /\ enqueue_translation(document_id, page)
    /\ UNCHANGED <<documents, document_chunks, _worker_started,
                   worker, next_uuid, started, responses, outside>>

(***************************************************************************)
(* worker.py: the worker thread.                                           *)
(***************************************************************************)
\* with _worker_lock: the body runs as one step
start_worker ==
    IF _worker_started
    THEN UNCHANGED vars
    ELSE /\ \E t \in Threads :
               /\ worker[t].pc = "none"
               /\ \A u \in Threads : u < t => worker[u].pc # "none"
               /\ worker' = [worker EXCEPT ![t] = FreshWorker]
         /\ _worker_started' = TRUE
         /\ UNCHANGED <<documents, document_chunks, _job_queue,
                        next_uuid, submitted, started, responses, outside>>

\* _run_worker: _job_queue.get() and the dispatch on job_type
_run_worker(t) ==
    /\ worker[t].pc = "idle"
    /\ _job_queue # <<>>
    /\ LET job == Head(_job_queue)
       IN  /\ _job_queue' = Tail(_job_queue)
           /\ started' = Append(started, job)
           /\ worker' = [worker EXCEPT ![t] =
                  [FreshWorker EXCEPT
                     !.pc = IF job.job_type = "parse"
                            THEN "parse_mark" ELSE "translate_begin",
                     !.job_type = job.job_type,
                     !.document_id = job.document_id,
                     !.page = job.page,
                     !.branch = "running",
                     !.pre_documents = documents,
                     !.pre_chunks = document_chunks]]
    /\ UNCHANGED <<documents, document_chunks, _worker_started,
                   next_uuid, submitted, responses, outside>>

\* a storage statement of thread t raises outside any try: the exception
\* leaves the job
StatementRaises(t) ==
    /\ worker' = [worker EXCEPT ![t] = Raised(@)]
    /\ UNCHANGED <<documents, document_chunks, _job_queue,
                   _worker_started, next_uuid, submitted, started, responses, outside>>

\* a statement inside a try raises: control passes to the except clause at pc
Caught(t, pc, exc) ==
    /\ worker' = [worker EXCEPT ![t] = [@ EXCEPT !.pc = pc, !.exc = exc]]
    /\ UNCHANGED <<documents, document_chunks, _job_queue,
                   _worker_started, next_uuid, submitted, started, responses, outside>>


(***************************************************************************)
(* worker.py: the Parse job.                                               *)
(***************************************************************************)
\* what _extract_pdf_pages returns when PdfReader reads the file at path
_extract_pdf_pages(path) ==
    [i \in 1..Len(UPLOAD_DIR[path]) |-> _normalize_text(UPLOAD_DIR[path][i])]

\* the rows of the pages from page_num on; uuid is the last uuid4 drawn
RECURSIVE build_from(_, _, _, _)
build_from(document_id, pages, page_num, uuid) ==
    IF page_num > Len(pages) THEN <<>>
    ELSE LET chunks == _split_text(pages[page_num])
             rows == [k \in 1..Len(chunks) |->
                         [id |-> uuid + k, document_id |-> document_id,
                          page |-> page_num, chunk_index |-> k - 1,
                          text_raw |-> chunks[k]]]
         IN  rows \o build_from(document_id, pages, page_num + 1,
                                uuid + Len(chunks))

_build_chunks(document_id, pages, uuid) == build_from(document_id, pages, 1, uuid)

\* a Parse job that clears error_message but leaves status as it is
ParseMark_keeps_status(t) ==
    /\ worker[t].pc = "parse_mark"
    /\ \/ /\ documents' = UpdateDocument(worker[t].document_id,
                 [error_message |-> NULL])
          /\ worker' = [worker EXCEPT ![t].pc = "parse_build"]
          /\ UNCHANGED <<document_chunks, _job_queue, _worker_started,
                         next_uuid, submitted, started, responses, outside>>
       \/ StatementRaises(t)

\* a first statement that leaves error_message as it is
ParseMark_keeps_error(t) ==
    /\ worker[t].pc = "parse_mark"
    /\ \/ /\ documents' = UpdateDocument(worker[t].document_id,
                 [status |-> "processing"])
          /\ worker' = [worker EXCEPT ![t].pc = "parse_build"]
          /\ UNCHANGED <<document_chunks, _job_queue, _worker_started,
                         next_uuid, submitted, started, responses, outside>>
       \/ StatementRaises(t)

\* UPDATE documents SET status = 'processing', error_message = NULL
ParseMark(t) ==
    /\ worker[t].pc = "parse_mark"
    /\ \/ /\ documents' = UpdateDocument(worker[t].document_id,
                 [status |-> "processing", error_message |-> NULL])
          /\ worker' = [worker EXCEPT ![t].pc = "parse_build"]
          /\ UNCHANGED <<document_chunks, _job_queue, _worker_started,
                         next_uuid, submitted, started, responses, outside>>
       \/ StatementRaises(t)

\* the fetch of the row, then _extract_pdf_pages and _build_chunks in the try
ParseBuild(t) ==
    /\ worker[t].pc = "parse_build"
    /\ \/ StatementRaises(t)
       \/ /\ worker[t].document_id \notin DOMAIN documents
          /\ worker' = [worker EXCEPT ![t] = Idle(@, "missing")]
          /\ UNCHANGED <<documents, document_chunks, _job_queue,
                         _worker_started, next_uuid, submitted, started, responses, outside>>
       \/ /\ worker[t].document_id \in DOMAIN documents
          /\ Caught(t, "parse_except", "extraction error")
       \/ /\ worker[t].document_id \in DOMAIN documents
          /\ LET pages == _extract_pdf_pages(
                              documents[worker[t].document_id].file_path)
                 chunks == _build_chunks(worker[t].document_id, pages, next_uuid)
             IN  /\ worker' = [worker EXCEPT ![t].pc = "parse_delete",
                                             ![t].pages = pages,
                                             ![t].chunks = chunks]
                 /\ next_uuid' = next_uuid + Len(chunks)
          /\ UNCHANGED <<documents, document_chunks, _job_queue,
                         _worker_started, submitted, started, responses, outside>>

\* a Parse job that inserts the new rows beside the old ones
ParseDelete_skipped(t) ==
    /\ worker[t].pc = "parse_delete"
    /\ worker' = [worker EXCEPT ![t].pc =
           IF worker[t].chunks # <<>> THEN "parse_insert" ELSE "parse_update"]
    /\ UNCHANGED <<documents, document_chunks, _job_queue, _worker_started,
                   next_uuid, submitted, started, responses, outside>>

\* DELETE FROM document_chunks WHERE document_id = ?
ParseDelete(t) ==
    /\ worker[t].pc = "parse_delete"
    /\ \/ /\ document_chunks' =
                 {c \in document_chunks : c.document_id # worker[t].document_id}
          /\ worker' = [worker EXCEPT ![t].pc =
                 IF worker[t].chunks # <<>> THEN "parse_insert" ELSE "parse_update"]
          /\ UNCHANGED <<documents, _job_queue, _worker_started,
                         next_uuid, submitted, started, responses, outside>>
       \/ Caught(t, "parse_except", "storage error")

\* INSERT INTO document_chunks (...) VALUES (?, ?, ?, ?, ?, NULL, 'pending', ?)
ParseInsert(t) ==
    /\ worker[t].pc = "parse_insert"
    /\ \/ /\ document_chunks' = document_chunks \cup
                 {[text_zh |-> NULL] @@ worker[t].chunks[k] :
                      k \in 1..Len(worker[t].chunks)}
          /\ worker' = [worker EXCEPT ![t].pc = "parse_update"]
          /\ UNCHANGED <<documents, _job_queue, _worker_started,
                         next_uuid, submitted, started, responses, outside>>
       \/ Caught(t, "parse_except", "storage error")

\* a Parse job whose last UPDATE leaves the translation columns alone
ParseUpdate_keeps_translation(t) ==
    /\ worker[t].pc = "parse_update"
    /\ \/ /\ documents' = UpdateDocument(worker[t].document_id,
                 [status |-> "ready", page_count |-> Len(worker[t].pages)])
          /\ worker' = [worker EXCEPT ![t] = Idle(@, "parse_ok")]
          /\ UNCHANGED <<document_chunks, _job_queue, _worker_started,
                         next_uuid, submitted, started, responses, outside>>
       \/ Caught(t, "parse_except", "storage error")

\* UPDATE documents SET status = 'ready', page_count = len(pages),
\*   translation_status = 'pending', translation_error_message = NULL
ParseUpdate(t) ==
    /\ worker[t].pc = "parse_update"
    /\ \/ /\ documents' = UpdateDocument(worker[t].document_id,
                 [status |-> "ready", page_count |-> Len(worker[t].pages),
                  translation_status |-> "pending",
                  translation_error_message |-> NULL])
          /\ worker' = [worker EXCEPT ![t] = Idle(@, "parse_ok")]
          /\ UNCHANGED <<document_chunks, _job_queue, _worker_started,
                         next_uuid, submitted, started, responses, outside>>
       \/ Caught(t, "parse_except", "storage error")

\* an except branch that also writes the translation fields
ParseExcept_resets_translation(t) ==
    /\ worker[t].pc = "parse_except"
    /\ \/ /\ documents' = UpdateDocument(worker[t].document_id,
                 [status |-> "failed", error_message |-> worker[t].exc,
                  translation_status |-> "pending",
                  translation_error_message |-> NULL])
          /\ worker' = [worker EXCEPT ![t] = Idle(@, "parse_failed")]
          /\ UNCHANGED <<document_chunks, _job_queue, _worker_started,
                         next_uuid, submitted, started, responses, outside>>
       \/ StatementRaises(t)

\* except Exception: UPDATE documents SET status = 'failed', error_message = str(exc)
ParseExcept(t) ==
    /\ worker[t].pc = "parse_except"
    /\ \/ /\ documents' = UpdateDocument(worker[t].document_id,
                 [status |-> "failed", error_message |-> worker[t].exc])
          /\ worker' = [worker EXCEPT ![t] = Idle(@, "parse_failed")]
          /\ UNCHANGED <<document_chunks, _job_queue, _worker_started,
                         next_uuid, submitted, started, responses, outside>>
       \/ StatementRaises(t)

_process_document(t) ==
    \/ ParseMark(t)
    \/ ParseBuild(t)
    \/ ParseDelete(t)
    \/ ParseInsert(t)
    \/ ParseUpdate(t)
    \/ ParseExcept(t)


(***************************************************************************)
(* worker.py: the Translate job.                                           *)
(***************************************************************************)
\* what translate_text_with_gen_ai can return
Translations == {"", "zh"}

\* a SELECT without the text_zh condition
SelectUntranslated_all(document_id, page) ==
    OrderByPageIndex(
        {c \in document_chunks :
            /\ c.document_id = document_id
            /\ page # None => c.page = page[1]})

\* a SELECT without the page condition
SelectUntranslated_any_page(document_id, page) ==
    OrderByPageIndex(
        {c \in document_chunks :
            /\ c.document_id = document_id
            /\ Untranslated(c)})

\* the SELECT of the untranslated chunks, of the document or of one page of it
SelectUntranslated(document_id, page) ==
    OrderByPageIndex(
        {c \in document_chunks :
            /\ c.document_id = document_id
            /\ page # None => c.page = page[1]
            /\ Untranslated(c)})

\* a refresh that counts nothing
_refresh_always_ready(document_id) ==
    UpdateDocument(document_id,
        [translation_status |-> "ready", translation_error_message |-> NULL])

\* the documents table after _refresh_translation_status(document_id)
_refresh_translation_status(document_id) ==
    LET remaining == Cardinality({c \in document_chunks :
                         c.document_id = document_id /\ Untranslated(c)})
        next_status == IF remaining = 0 THEN "ready" ELSE "pending"
    IN  UpdateDocument(document_id,
            [translation_status |-> next_status,
             translation_error_message |-> NULL])

\* a Translate job that does not look at status
TranslateBegin_no_gate(t) ==
    /\ worker[t].pc = "translate_begin"
    /\ \/ StatementRaises(t)
       \/ /\ worker[t].document_id \notin DOMAIN documents
          /\ worker' = [worker EXCEPT ![t] = Idle(@, "missing")]
          /\ UNCHANGED <<documents, document_chunks, _job_queue,
                         _worker_started, next_uuid, submitted, started, responses, outside>>
       \/ /\ worker[t].document_id \in DOMAIN documents
          /\ documents' = UpdateDocument(worker[t].document_id,
                 [translation_status |-> "processing",
                  translation_error_message |-> NULL])
          /\ worker' = [worker EXCEPT ![t].pc = "translate_select"]
          /\ UNCHANGED <<document_chunks, _job_queue, _worker_started,
                         next_uuid, submitted, started, responses, outside>>

\* the fetch of the row, and the UPDATE of the branch taken
TranslateBegin(t) ==
    /\ worker[t].pc = "translate_begin"
    /\ \/ StatementRaises(t)
       \/ /\ worker[t].document_id \notin DOMAIN documents
          /\ worker' = [worker EXCEPT ![t] = Idle(@, "missing")]
          /\ UNCHANGED <<documents, document_chunks, _job_queue,
                         _worker_started, next_uuid, submitted, started, responses, outside>>
       \/ /\ worker[t].document_id \in DOMAIN documents
          /\ documents[worker[t].document_id].status # "ready"
          /\ documents' = UpdateDocument(worker[t].document_id,
                 [translation_status |-> "failed",
                  translation_error_message |->
                      "Document is not ready for translation."])
          /\ worker' = [worker EXCEPT ![t] = Idle(@, "not_ready")]
          /\ UNCHANGED <<document_chunks, _job_queue, _worker_started,
                         next_uuid, submitted, started, responses, outside>>
       \/ /\ worker[t].document_id \in DOMAIN documents
          /\ documents[worker[t].document_id].status = "ready"
          /\ documents' = UpdateDocument(worker[t].document_id,
                 [translation_status |-> "processing",
                  translation_error_message |-> NULL])
          /\ worker' = [worker EXCEPT ![t].pc = "translate_select"]
          /\ UNCHANGED <<document_chunks, _job_queue, _worker_started,
                         next_uuid, submitted, started, responses, outside>>

\* chunks = db.fetch_all(...)
TranslateSelect(t) ==
    /\ worker[t].pc = "translate_select"
    /\ \/ StatementRaises(t)
       \/ /\ LET rows == SelectUntranslated(worker[t].document_id, worker[t].page)
                 chunks == [k \in 1..Len(rows) |->
                               [id |-> rows[k].id, text_raw |-> rows[k].text_raw]]
             IN  worker' = [worker EXCEPT
                     ![t].chunks = chunks,
                     ![t].idx = 1,
                     ![t].pc = IF chunks = <<>> THEN "translate_refresh"
                               ELSE "translate_chunk"]
          /\ UNCHANGED <<documents, document_chunks, _job_queue,
                         _worker_started, next_uuid, submitted, started, responses, outside>>

\* one round of the for loop: the call, then UPDATE document_chunks SET text_zh
TranslateChunk(t) ==
    /\ worker[t].pc = "translate_chunk"
    /\ LET chunk == worker[t].chunks[worker[t].idx]
           w == [worker[t] EXCEPT !.called = Append(@, chunk.id)]
       IN  \/ /\ worker' = [worker EXCEPT ![t] =
                     [w EXCEPT !.pc = "translate_except",
                               !.exc = "translation error"]]
              /\ UNCHANGED <<documents, document_chunks, _job_queue,
                             _worker_started, next_uuid, submitted,
                             started, responses, outside>>
           \/ /\ worker' = [worker EXCEPT ![t] =
                     [w EXCEPT !.pc = "translate_except",
                               !.exc = "storage error"]]
              /\ UNCHANGED <<documents, document_chunks, _job_queue,
                             _worker_started, next_uuid, submitted, started, responses, outside>>
           \/ /\ \E translated \in Translations :
                     /\ document_chunks' =
                            {IF c.id = chunk.id
                             THEN [c EXCEPT !.text_zh = translated] ELSE c :
                                 c \in document_chunks}
                     /\ worker' = [worker EXCEPT ![t] =
                            [w EXCEPT
                               !.idx = @ + 1,
                               !.wrote = Append(@, translated),
                               !.pc = IF worker[t].idx = Len(worker[t].chunks)
                                      THEN "translate_refresh"
                                      ELSE "translate_chunk"]]
              /\ UNCHANGED <<documents, _job_queue, _worker_started,
                             next_uuid, submitted, started, responses, outside>>

\* except Exception: UPDATE documents SET translation_status = 'failed',
\*   translation_error_message = str(exc)
TranslateExcept(t) ==
    /\ worker[t].pc = "translate_except"
    /\ \/ /\ documents' = UpdateDocument(worker[t].document_id,
                 [translation_status |-> "failed",
                  translation_error_message |-> worker[t].exc])
          /\ worker' = [worker EXCEPT ![t] = Idle(@, "translate_failed")]
          /\ UNCHANGED <<document_chunks, _job_queue, _worker_started,
                         next_uuid, submitted, started, responses, outside>>
       \/ StatementRaises(t)

\* _refresh_translation_status(document_id): the count and the UPDATE
TranslateRefresh(t) ==
    /\ worker[t].pc = "translate_refresh"
    /\ \/ /\ documents' = _refresh_translation_status(worker[t].document_id)
          /\ worker' = [worker EXCEPT ![t] = Idle(@, "translate_ok")]
          /\ UNCHANGED <<document_chunks, _job_queue, _worker_started,
                         next_uuid, submitted, started, responses, outside>>
       \/ StatementRaises(t)

_process_translation(t) ==
    \/ TranslateBegin(t)
    \/ TranslateSelect(t)
    \/ TranslateChunk(t)
    \/ TranslateExcept(t)
    \/ TranslateRefresh(t)

(***************************************************************************)
(* The system.                                                             *)
(***************************************************************************)
(***************************************************************************)
(* worker.py: one call of _split_text, iteration by iteration.  The        *)
(* record split holds the argument, the locals start and chunks, and the   *)
(* trace of the call: the windows taken, the iterations run and the way    *)
(* the call ended.                                                         *)
(***************************************************************************)
\* step = CHUNK_SIZE - CHUNK_OVERLAP
step == CHUNK_SIZE - CHUNK_OVERLAP

\* n copies of the character c
run(c, n) == IF n = 0 THEN <<>> ELSE <<<<c, n>>>>

\* run lengths at and around the multiples of step, the window size and the
\* page lengths of the specification's examples
RunLengths ==
    {0, 1, 200, 1000}
      \cup {n \in {k * step + e : k \in 0..MaxSteps,
                                  e \in {-1, 0, 1, CHUNK_OVERLAP,
                                         CHUNK_OVERLAP + 1}} : n >= 0}

\* the arguments of the observed calls: letters, then blanks, then letters
Texts ==
    {Cat(Cat(run("a", p), run(" ", q)), run("b", r)) :
         p \in RunLengths, q \in RunLengths, r \in RunLengths}

\* the call _split_text(text) before its first statement
EnterSplit(text) ==
    [pc |-> "entry", text |-> text, start |-> 0, chunks |-> <<>>,
     windows |-> <<>>, iterations |-> 0, exit |-> ""]

InitSplit ==
    /\ InitPipeline
    /\ InitStart
    /\ split \in {EnterSplit(text) : text \in Texts}

\* if not text.strip(): return []
split_entry ==
    /\ split.pc = "entry"
    /\ split' = IF strip(split.text) = <<>>
                THEN [split EXCEPT !.pc = "done", !.exit = "blank"]
                ELSE [split EXCEPT !.pc = "while"]
    /\ UNCHANGED <<documents, document_chunks, _job_queue, _worker_started,
                   worker, next_uuid, submitted, started, responses,
                   _worker_lock, callers>>

\* a loop that goes on from the end of the window it took
split_iteration_no_overlap ==
    /\ split.pc = "while"
    /\ split.iterations < MaxIterations
    /\ IF ~(split.start < len(split.text))
       THEN split' = [split EXCEPT !.pc = "done", !.exit = "condition"]
       ELSE LET end == IF split.start + CHUNK_SIZE < len(split.text)
                       THEN split.start + CHUNK_SIZE ELSE len(split.text)
                chunk == strip(Slice(split.text, split.start, end))
                taken == [split EXCEPT
                            !.chunks = IF chunk # <<>>
                                       THEN Append(@, chunk) ELSE @,
                            !.windows = Append(@, <<split.start, end>>),
                            !.iterations = @ + 1]
            IN  split' = IF end = len(split.text)
                         THEN [taken EXCEPT !.pc = "done", !.exit = "break"]
                         ELSE [taken EXCEPT !.start = @ + CHUNK_SIZE]
    /\ UNCHANGED <<documents, document_chunks, _job_queue, _worker_started,
                   worker, next_uuid, submitted, started, responses,
                   _worker_lock, callers>>

\* a loop that moves its offset only after a window that gave a chunk
split_iteration_stalls_on_empty ==
    /\ split.pc = "while"
    /\ split.iterations < MaxIterations
    /\ IF ~(split.start < len(split.text))
       THEN split' = [split EXCEPT !.pc = "done", !.exit = "condition"]
       ELSE LET end == IF split.start + CHUNK_SIZE < len(split.text)
                       THEN split.start + CHUNK_SIZE ELSE len(split.text)
                chunk == strip(Slice(split.text, split.start, end))
                taken == [split EXCEPT
                            !.chunks = IF chunk # <<>>
                                       THEN Append(@, chunk) ELSE @,
                            !.windows = Append(@, <<split.start, end>>),
                            !.iterations = @ + 1]
            IN  split' = IF end = len(split.text)
                         THEN [taken EXCEPT !.pc = "done", !.exit = "break"]
                         ELSE IF chunk # <<>>
                         THEN [taken EXCEPT !.start = @ + step]
                         ELSE taken
    /\ UNCHANGED <<documents, document_chunks, _job_queue, _worker_started,
                   worker, next_uuid, submitted, started, responses,
                   _worker_lock, callers>>

\* while start < len(text): one test of the condition and, when it holds, one
\* run of the body.  The trace is cut after MaxIterations iterations.
split_iteration ==
    /\ split.pc = "while"
    /\ split.iterations < MaxIterations
    /\ IF ~(split.start < len(split.text))
       THEN split' = [split EXCEPT !.pc = "done", !.exit = "condition"]
       ELSE LET end == IF split.start + CHUNK_SIZE < len(split.text)
                       THEN split.start + CHUNK_SIZE ELSE len(split.text)
                chunk == strip(Slice(split.text, split.start, end))
                taken == [split EXCEPT
                            !.chunks = IF chunk # <<>>
                                       THEN Append(@, chunk) ELSE @,
                            !.windows = Append(@, <<split.start, end>>),
                            !.iterations = @ + 1]
            IN  split' = IF end = len(split.text)
                         THEN [taken EXCEPT !.pc = "done", !.exit = "break"]
                         ELSE [taken EXCEPT !.start = @ + step]
    /\ UNCHANGED <<documents, document_chunks, _job_queue, _worker_started,
                   worker, next_uuid, submitted, started, responses,
                   _worker_lock, callers>>

NextSplit ==
    \/ split_entry
    \/ split_iteration

SpecSplit == InitSplit /\ [][NextSplit]_vars

\* the call is run to its end
SpecSplitFair == SpecSplit /\ WF_vars(NextSplit)


JobTargets == DocIds \cup {MissingDoc}

(***************************************************************************)
(* worker.py: start_worker statement by statement, called from several     *)
(* threads.  callers[c] is the statement caller c stands before: "out" of  *)
(* the function, before the "check" of the flag, before thread.start(), or *)
(* before the "set" of the flag.                                           *)
(***************************************************************************)
\* leaving the with block releases the lock if the caller holds it
release(c) == IF _worker_lock = c THEN 0 ELSE _worker_lock

\* a with statement that does not take the lock
start_worker_acquire_no_lock(c) ==
    /\ callers[c] = "out"
    /\ callers' = [callers EXCEPT ![c] = "check"]
    /\ UNCHANGED <<documents, document_chunks, _job_queue, _worker_started,
                   worker, next_uuid, submitted, started, responses, split,
                   _worker_lock>>

\* with _worker_lock: the call goes on when the lock is free, and takes it
start_worker_acquire(c) ==
    /\ callers[c] = "out"
    /\ _worker_lock = 0
    /\ _worker_lock' = c
    /\ callers' = [callers EXCEPT ![c] = "check"]
    /\ UNCHANGED <<documents, document_chunks, _job_queue, _worker_started,
                   worker, next_uuid, submitted, started, responses, split>>

\* if _worker_started: return
start_worker_check(c) ==
    /\ callers[c] = "check"
    /\ IF _worker_started
       THEN /\ callers' = [callers EXCEPT ![c] = "out"]
            /\ _worker_lock' = release(c)
       ELSE /\ callers' = [callers EXCEPT ![c] = "start"]
            /\ UNCHANGED _worker_lock
    /\ UNCHANGED <<documents, document_chunks, _job_queue, _worker_started,
                   worker, next_uuid, submitted, started, responses, split>>

\* thread = threading.Thread(target=_run_worker, daemon=True); thread.start():
\* a new thread runs _run_worker, or start() raises and the call ends
start_worker_thread(c) ==
    /\ callers[c] = "start"
    /\ \/ /\ \E t \in Threads :
                /\ worker[t].pc = "none"
                /\ \A u \in Threads : u < t => worker[u].pc # "none"
                /\ worker' = [worker EXCEPT ![t] = FreshWorker]
          /\ callers' = [callers EXCEPT ![c] = "set"]
          /\ UNCHANGED _worker_lock
       \/ /\ callers' = [callers EXCEPT ![c] = "out"]
          /\ _worker_lock' = release(c)
          /\ UNCHANGED worker
    /\ UNCHANGED <<documents, document_chunks, _job_queue, _worker_started,
                   next_uuid, submitted, started, responses, split>>

\* _worker_started = True, and the end of the with block
start_worker_set(c) ==
    /\ callers[c] = "set"
    /\ _worker_started' = TRUE
    /\ callers' = [callers EXCEPT ![c] = "out"]
    /\ _worker_lock' = release(c)
    /\ UNCHANGED <<documents, document_chunks, _job_queue, worker,
                   next_uuid, submitted, started, responses, split>>

\* the callers of start_worker, the callers of enqueue_document and the
\* threads that take the jobs
NextStart ==
    \/ \E c \in Callers : start_worker_acquire(c)
    \/ \E c \in Callers : start_worker_check(c)
    \/ \E c \in Callers : start_worker_thread(c)
    \/ \E c \in Callers : start_worker_set(c)
    \/ \E document_id \in JobTargets : call_enqueue_document(document_id)
    \/ \E t \in Threads : _run_worker(t)
    \/ \E t \in Threads : ParseMark(t)
    \/ \E t \in Threads : ParseBuild(t)

SpecStart == Init /\ [][NextStart]_vars


Next ==
    \/ \E suffix \in {".pdf", ".txt"}, target_path \in DOMAIN UPLOAD_DIR :
           create_document(suffix, target_path)
    \/ \E document_id \in JobTargets, page \in PageArgs :
           translate_document(document_id, page)
    \/ \E document_id \in JobTargets : call_enqueue_document(document_id)
    \/ \E document_id \in JobTargets, page \in PageArgs :
           call_enqueue_translation(document_id, page)
    \/ start_worker
    \/ \E t \in Threads : _run_worker(t)
    \/ \E t \in Threads : _process_document(t)
    \/ \E t \in Threads : _process_translation(t)

Spec == Init /\ [][Next]_vars


(***************************************************************************)
(* Properties.                                                             *)
(***************************************************************************)
\* thread t is inside a job
Running(t) == worker[t].pc \notin {"none", "idle", "dead"}

\* thread t returned from its last job along the given branch
Returned(t, branch) == worker[t].pc = "idle" /\ worker[t].branch = branch

\* the stored chunks of a document
ChunksOf(document_id) == {c \in document_chunks : c.document_id = document_id}

\* C1: the worker takes the jobs in the order they were put on the queue,
\* skipping none, and at no time are two jobs in execution.
C1_FifoOneAtATime ==
    /\ submitted = started \o _job_queue
    /\ Cardinality({t \in Threads : Running(t)}) <= 1

\* three jobs of two kinds and two documents were taken, the third running
C1_Witness ==
    /\ Len(started) = 3
    /\ started[1].document_id # started[2].document_id
    /\ started[2].job_type # started[3].job_type
    /\ \E t \in Threads : Running(t)

\* C2: no error raised while a job runs ends the worker: every thread that
\* was started is waiting for a job or running one.
C2_NoErrorIsFatal == \A t \in Threads : worker[t].pc # "dead"


\* thread t takes the step of its job that leaves from and arrives at to
Step(t, document_id, from, to) ==
    /\ worker[t].pc = from
    /\ worker[t].document_id = document_id
    /\ worker'[t].pc = to

\* C3: a document's status changes only to processing by the first statement
\* of a Parse job, from processing to ready by the last statement of a Parse
\* job that succeeds, and from processing to failed by the except clause of
\* a Parse job; no step of a Translate job changes it.
C3_StatusTransitions ==
    [][\A d \in DOMAIN documents :
          documents'[d].status # documents[d].status =>
              \/ /\ documents'[d].status = "processing"
                 /\ \E t \in Threads : Step(t, d, "parse_mark", "parse_build")
              \/ /\ documents[d].status = "processing"
                 /\ documents'[d].status = "ready"
                 /\ \E t \in Threads : /\ Step(t, d, "parse_update", "idle")
                                       /\ worker'[t].branch = "parse_ok"
              \/ /\ documents[d].status = "processing"
                 /\ documents'[d].status = "failed"
                 /\ \E t \in Threads : /\ Step(t, d, "parse_except", "idle")
                                       /\ worker'[t].branch = "parse_failed"]_vars

\* a document that was ready was parsed again and that Parse job failed
C3_Witness ==
    \E t \in Threads :
        /\ Returned(t, "parse_failed")
        /\ worker[t].pre_documents[worker[t].document_id].status = "ready"
        /\ documents[worker[t].document_id].status = "failed"

\* C4: when a Parse job has finished successfully the document is ready
\* with page_count the number of pages of its file, translation_status
\* pending and both error messages null.
C4_ParseSuccess ==
    \A t \in Threads :
        Returned(t, "parse_ok") =>
            LET document == documents[worker[t].document_id]
            IN  /\ document.status = "ready"
                /\ document.page_count = Len(UPLOAD_DIR[document.file_path])
                /\ document.translation_status = "pending"
                /\ document.error_message = NULL
                /\ document.translation_error_message = NULL

\* a Parse job succeeded on a document that was failed, with an error
\* message, and whose translation had failed with an error message
C4_Witness ==
    \E t \in Threads :
        /\ Returned(t, "parse_ok")
        /\ LET before == worker[t].pre_documents[worker[t].document_id]
           IN  /\ before.status = "failed"
               /\ before.error_message # NULL
               /\ before.translation_status = "failed"
               /\ before.translation_error_message # NULL
               /\ before.page_count # Len(UPLOAD_DIR[before.file_path])

\* C5: when a Parse job has finished successfully the stored chunks of the
\* document are exactly the rows this job built, each with text_zh null,
\* none with an id stored before the job, and the chunks of every other
\* document are the ones stored before the job.
C5_ChunksReplaced ==
    \A t \in Threads :
        Returned(t, "parse_ok") =>
            LET d == worker[t].document_id
                built == {[text_zh |-> NULL] @@ worker[t].chunks[k] :
                             k \in 1..Len(worker[t].chunks)}
            IN  /\ ChunksOf(d) = built
                /\ Len(worker[t].chunks) = Cardinality(built)
                /\ \A c \in ChunksOf(d) :
                       /\ c.text_zh = NULL
                       /\ \A b \in worker[t].pre_chunks : b.id # c.id
                /\ document_chunks \ ChunksOf(d) =
                       {b \in worker[t].pre_chunks : b.document_id # d}

\* a Parse job succeeded on a document that had chunks, one of them
\* translated, and built chunks again
C5_Witness ==
    \E t \in Threads :
        /\ Returned(t, "parse_ok")
        /\ \E b \in worker[t].pre_chunks :
               /\ b.document_id = worker[t].document_id
               /\ b.text_zh = "zh"
        /\ \E b \in worker[t].pre_chunks :
               /\ b.document_id = worker[t].document_id
               /\ b.text_zh = NULL
        /\ Len(worker[t].chunks) = 3


\* C6 as stated: in every step that moves a document's translation_status
\* away from pending, the document's status is ready.
C6_AwayFromPendingOnlyWhenReady ==
    [][\A d \in DOMAIN documents :
          /\ documents[d].translation_status = "pending"
          /\ documents'[d].translation_status # "pending"
          => documents[d].status = "ready"]_vars

\* C6, amended: a step that moves a document's translation_status away from
\* pending either finds the document's status ready, or is the step of a
\* Translate job that finds the document not ready and records failed.
C6_AwayFromPendingReadyOrRejected ==
    [][\A d \in DOMAIN documents :
          /\ documents[d].translation_status = "pending"
          /\ documents'[d].translation_status # "pending"
          => \/ /\ documents[d].status = "ready"
                /\ documents'[d].status = "ready"
             \/ /\ documents[d].status # "ready"
                /\ documents'[d].translation_status = "failed"
                /\ \E t \in Threads :
                       /\ Step(t, d, "translate_begin", "idle")
                       /\ worker'[t].branch = "not_ready"]_vars

\* a Translate job moved a ready document from pending to processing
C6_Witness ==
    \E t \in Threads :
        /\ worker[t].pc = "translate_select"
        /\ worker[t].pre_documents[worker[t].document_id].translation_status
               = "pending"
        /\ documents[worker[t].document_id].translation_status = "processing"
        /\ documents[worker[t].document_id].status = "ready"

\* thread t is in, or has left, a Translate job that found its document
\* stored and not ready
RejectedTranslate(t) ==
    /\ worker[t].pc # "none"
    /\ worker[t].job_type = "translate"
    /\ worker[t].document_id \in DOMAIN worker[t].pre_documents
    /\ worker[t].pre_documents[worker[t].document_id].status # "ready"

\* C7: a Translate job for a stored document that is not ready never calls
\* the translation collaborator, never leaves its first statement for the
\* selection or the loop, never shows translation_status processing, leaves
\* every chunk as it was, and returns with translation_status failed and a
\* message.
C7_NotReadyRejected ==
    \A t \in Threads :
        RejectedTranslate(t) =>
            LET document == documents[worker[t].document_id]
            IN  /\ worker[t].called = <<>>
                /\ worker[t].pc \in {"translate_begin", "idle", "dead"}
                /\ document.translation_status # "processing"
                /\ document_chunks = worker[t].pre_chunks
                /\ worker[t].pc = "idle" =>
                       /\ worker[t].branch = "not_ready"
                       /\ document.translation_status = "failed"
                       /\ document.translation_error_message # NULL

\* a Translate job returned from a failed document that has an untranslated
\* chunk, and whose translation was pending
C7_Witness ==
    \E t \in Threads :
        /\ RejectedTranslate(t)
        /\ Returned(t, "not_ready")
        /\ documents[worker[t].document_id].status = "failed"
        /\ worker[t].pre_documents[worker[t].document_id].translation_status
               = "pending"
        /\ \E c \in ChunksOf(worker[t].document_id) : Untranslated(c)


\* the row with the given id among rows
RowById(rows, id) == CHOOSE c \in rows : c.id = id

\* C8: when a Translate job has returned after its k-th call or write
\* failed, the list it selected is in (page, chunk_index) order, its first
\* k-1 chunks hold the texts this job wrote, the k-th and every later one is
\* stored as it was before the job, untranslated, and translation_status is
\* failed with a message; and every Translate job calls the collaborator
\* only for chunks that were untranslated when it started, once each.
C8_PartialProgressKept ==
    \A t \in Threads :
        /\ Returned(t, "translate_failed") =>
              LET selected == worker[t].chunks
                  k == Len(worker[t].called)
                  document == documents[worker[t].document_id]
              IN  /\ k \in 1..Len(selected)
                  /\ Len(worker[t].wrote) = k - 1
                  /\ \A i \in 1..Len(selected) :
                         /\ \E c \in document_chunks : c.id = selected[i].id
                         /\ \E b \in worker[t].pre_chunks : b.id = selected[i].id
                  /\ \A i \in 1..Len(selected), j \in 1..Len(selected) :
                         i < j =>
                             LET a == RowById(worker[t].pre_chunks, selected[i].id)
                                 b == RowById(worker[t].pre_chunks, selected[j].id)
                             IN  \/ a.page < b.page
                                 \/ /\ a.page = b.page
                                    /\ a.chunk_index < b.chunk_index
                  /\ \A i \in 1..k - 1 :
                         RowById(document_chunks, selected[i].id).text_zh
                             = worker[t].wrote[i]
                  /\ \A i \in k..Len(selected) :
                         /\ RowById(document_chunks, selected[i].id)
                                = RowById(worker[t].pre_chunks, selected[i].id)
                         /\ Untranslated(RowById(document_chunks, selected[i].id))
                  /\ document.translation_status = "failed"
                  /\ document.translation_error_message = worker[t].exc
                  /\ document.translation_error_message # NULL
        /\ worker[t].pc # "none" /\ worker[t].job_type = "translate" =>
              /\ \A i \in 1..Len(worker[t].called) :
                     /\ \E b \in worker[t].pre_chunks :
                            /\ b.id = worker[t].called[i]
                            /\ b.document_id = worker[t].document_id
                            /\ Untranslated(b)
                     /\ \A j \in 1..Len(worker[t].called) :
                            worker[t].called[i] = worker[t].called[j] => i = j

\* a Translate job of a whole document, whose translation had failed on a
\* translation error after a chunk was translated, called the collaborator
\* for the two chunks left and returned
C8_Witness ==
    \E t \in Threads :
        /\ Returned(t, "translate_ok")
        /\ worker[t].page = None
        /\ LET before == worker[t].pre_documents[worker[t].document_id]
           IN  /\ before.translation_status = "failed"
               /\ before.translation_error_message = "translation error"
        /\ Cardinality({b \in worker[t].pre_chunks :
               b.document_id = worker[t].document_id /\ b.text_zh = "zh"}) = 1
        /\ Len(worker[t].called) = 2
        /\ Cardinality(ChunksOf(worker[t].document_id)) = 3

\* C9: a Translate job with a page stores and removes no chunk, and every
\* chunk of another page or of another document has the text_zh it had
\* before the job, at every point of the job and after it.
C9_PageScopedFrame ==
    \A t \in Threads :
        /\ worker[t].pc # "none"
        /\ worker[t].job_type = "translate"
        /\ worker[t].page # None
        => /\ {c.id : c \in document_chunks} = {b.id : b \in worker[t].pre_chunks}
           /\ \A c \in document_chunks :
                  \/ c \in worker[t].pre_chunks
                  \/ /\ c.document_id = worker[t].document_id
                     /\ c.page = worker[t].page[1]
                     /\ [c EXCEPT !.text_zh = NULL]
                            \in {[b EXCEPT !.text_zh = NULL] :
                                    b \in worker[t].pre_chunks}

\* a Translate job of page 1 failed after writing one chunk, while page 2 of
\* the document and another document have untranslated chunks
C9_Witness ==
    \E t \in Threads :
        /\ Returned(t, "translate_failed")
        /\ worker[t].page = <<1>>
        /\ Len(worker[t].wrote) = 1
        /\ \E c \in document_chunks \ worker[t].pre_chunks : c.text_zh = "zh"
        /\ \E c \in ChunksOf(worker[t].document_id) : c.page = 2
        /\ \E c \in document_chunks : c.document_id # worker[t].document_id

\* C10: when a Translate job has returned with every call and write
\* succeeded, translation_error_message is null and translation_status is
\* ready if no chunk of the document, on any page, is untranslated, and
\* pending otherwise.
C10_RefreshedStatus ==
    \A t \in Threads :
        Returned(t, "translate_ok") =>
            LET document == documents[worker[t].document_id]
                remaining == {c \in ChunksOf(worker[t].document_id) :
                                 c.text_zh = NULL \/ c.text_zh = ""}
            IN  /\ Len(worker[t].wrote) = Len(worker[t].chunks)
                /\ document.status = "ready"
                /\ document.translation_error_message = NULL
                /\ document.translation_status =
                       IF remaining = {} THEN "ready" ELSE "pending"

\* a Translate job of page 1 translated both chunks of the page and
\* returned with translation_status pending, page 2 being untranslated
C10_Witness ==
    \E t \in Threads :
        /\ Returned(t, "translate_ok")
        /\ worker[t].page = <<1>>
        /\ worker[t].wrote = <<"zh", "zh">>
        /\ documents[worker[t].document_id].translation_status = "pending"
        /\ \A c \in ChunksOf(worker[t].document_id) :
               Untranslated(c) <=> c.page = 2


\* C11: a Parse job of a stored document that failed inside its try block
\* (extraction, DELETE, INSERT or the final UPDATE raised) returns with
\* status failed and error_message equal to the text of the exception, and
\* translation_status and translation_error_message are the values the row
\* had when the job was taken from the queue.
C11_ParseFailureFrame ==
    \A t \in Threads :
        Returned(t, "parse_failed") =>
            LET document == documents[worker[t].document_id]
                before == worker[t].pre_documents[worker[t].document_id]
            IN  /\ document.status = "failed"
                /\ worker[t].exc # NULL
                /\ document.error_message = worker[t].exc
                /\ document.translation_status = before.translation_status
                /\ document.translation_error_message
                       = before.translation_error_message

\* a Parse job failed on a storage statement for a document whose translation
\* had failed with a message before the job
C11_Witness ==
    \E t \in Threads :
        /\ Returned(t, "parse_failed")
        /\ worker[t].exc = "storage error"
        /\ worker[t].pre_documents[worker[t].document_id].translation_status
               = "failed"
        /\ worker[t].pre_documents[worker[t].document_id]
               .translation_error_message # NULL
        /\ documents[worker[t].document_id].translation_status = "failed"


\* thread t took a job whose document_id has no row
MissingJob(t) ==
    /\ worker[t].pc # "none"
    /\ worker[t].job_type \in {"parse", "translate"}
    /\ worker[t].document_id \notin DOMAIN documents

\* C12: a Parse or Translate job whose document_id has no row never enters
\* extraction, the chunk writes, the translation loop or an except branch;
\* every row and every chunk is as it was when the job was taken, no row has
\* the job's id, no step of the job changes a table or draws a chunk id, and
\* the job returns along the no-row branch, after which the thread waits for
\* the next job. The thread ends in such a job only when a storage statement
\* itself raised.
C12_MissingIsNoOp ==
    /\ [](\A t \in Threads :
            MissingJob(t) =>
                /\ worker[t].pc \in {"parse_mark", "parse_build",
                                     "translate_begin", "idle", "dead"}
                /\ \A d \in DOMAIN worker[t].pre_documents :
                       documents[d] = worker[t].pre_documents[d]
                /\ document_chunks = worker[t].pre_chunks
                /\ worker[t].called = <<>>
                /\ worker[t].pages = <<>>
                /\ worker[t].chunks = <<>>
                /\ worker[t].exc = NULL
                /\ worker[t].pc = "idle" => worker[t].branch = "missing"
                /\ worker[t].pc = "dead" => worker[t].branch = "raised")
    /\ [][\A t \in Threads :
            MissingJob(t) /\ Running(t) /\ worker'[t] # worker[t] =>
                /\ documents' = documents
                /\ document_chunks' = document_chunks
                /\ next_uuid' = next_uuid]_vars

\* after a stored document was parsed into chunks, the worker returned from a
\* Parse job without a row and then from a Translate job without a row
C12_Witness ==
    \E t \in Threads :
        /\ Len(started) = 3
        /\ started[2].job_type = "parse"
        /\ started[2].document_id = MissingDoc
        /\ MissingJob(t)
        /\ worker[t].job_type = "translate"
        /\ Returned(t, "missing")
        /\ document_chunks # {}
        /\ documents # <<>>


\* C13: every answer of translate_document follows the row it read: no row
\* gives 404, a row whose status is not ready gives 409, and in both cases
\* the queue is as it was; the request puts a Translate job, the one for its
\* document and page, exactly when the row it read had status ready.
C13_TranslateRequestGate ==
    [][Len(responses') > Len(responses) =>
          LET r == responses'[Len(responses')]
              job == [job_type |-> "translate", document_id |-> r.document_id,
                      page |-> r.page]
              refused == /\ _job_queue' = _job_queue
                         /\ submitted' = submitted
          IN  IF r.document_id \notin DOMAIN documents
              THEN r.status_code = 404 /\ refused
              ELSE IF documents[r.document_id].status # "ready"
              THEN r.status_code = 409 /\ refused
              ELSE /\ r.status_code = 200
                   /\ _job_queue' = Append(_job_queue, job)
                   /\ submitted' = Append(submitted, job)]_vars

\* a request for an absent document was answered 404, then a request for a
\* stored document whose parse failed was answered 409, and no Translate job
\* was ever put on the queue
C13_Witness ==
    /\ Len(responses) = 2
    /\ responses[1].status_code = 404
    /\ responses[2].status_code = 409
    /\ responses[2].document_id \in DOMAIN documents
    /\ documents[responses[2].document_id].status = "failed"
    /\ \A i \in DOMAIN submitted : submitted[i].job_type # "translate"


\* the least integer not below x / y, for x >= 0 and y > 0
CeilDiv(x, y) == (x + y - 1) \div y

\* the windows the text of length L is cut into: window i starts at i * step
\* and the last one is the first that ends at L
WindowsOf(L) ==
    LET last == IF L <= CHUNK_SIZE THEN 0 ELSE CeilDiv(L - CHUNK_SIZE, step)
    IN  [i \in 1..last + 1 |->
            <<(i - 1) * step,
              IF (i - 1) * step + CHUNK_SIZE < L
              THEN (i - 1) * step + CHUNK_SIZE ELSE L>>]

\* the trimmed windows of a text that are not empty, in order
TrimmedWindows(text) ==
    LET windows == WindowsOf(len(text))
        trimmed == [i \in DOMAIN windows |->
                       strip(Slice(text, windows[i][1], windows[i][2]))]
    IN  SelectSeq(trimmed, LAMBDA chunk : chunk # <<>>)

\* C14: a finished call of _split_text on a blank text took no window and
\* returns no chunk; on any other text of length L it took the windows
\* [i*step, min(i*step + CHUNK_SIZE, L)) for i = 0, 1, ... up to the first one
\* that ends at L, left by the break, and returns their trimmed non-empty
\* texts in order.  So L <= CHUNK_SIZE gives the trimmed text alone, a text
\* with L > CHUNK_SIZE and no blank window gives
\* ceil((L - CHUNK_SIZE) / step) + 1 chunks, 1000 characters give the windows
\* [0, 800) and [640, 1000), and 200 characters give one chunk.  The loop and
\* the function the Parse job applies return the same list.
C14_WindowsAndChunks ==
    split.pc = "done" =>
        LET text == split.text
            L == len(text)
        IN  IF strip(text) = <<>>
            THEN split.chunks = <<>> /\ split.windows = <<>>
            ELSE /\ split.exit = "break"
                 /\ split.windows = WindowsOf(L)
                 /\ split.windows[Len(split.windows)][2] = L
                 /\ \A i \in 1..Len(split.windows) - 1 :
                        split.windows[i][2] < L
                 /\ split.chunks = TrimmedWindows(text)
                 /\ split.chunks = _split_text(text)
                 /\ L <= CHUNK_SIZE => split.chunks = <<strip(text)>>
                 /\ L > CHUNK_SIZE /\ Len(split.chunks) = Len(split.windows) =>
                        Len(split.chunks) = CeilDiv(L - CHUNK_SIZE, step) + 1
                 /\ L = 1000 => split.windows = <<<<0, 800>>, <<640, 1000>>>>
                 /\ L = 200 => Len(split.chunks) = 1

\* the call on a page of 1000 letters returned its two chunks, of 800 and of
\* 360 letters
C14_Witness ==
    /\ split.pc = "done"
    /\ split.text = run("a", 1000)
    /\ split.chunks = <<run("a", 800), run("a", 360)>>

\* C15: the loop of _split_text ends on every text: each iteration that does
\* not leave the loop adds step > 0 to the offset, whether or not its trimmed
\* window was empty, the offset stays below the length of the text, no more
\* than ceil(L / step) iterations are ever run, and the call returns.
C15_SplitTerminates ==
    /\ [](split.pc \in {"while", "done"} =>
             /\ step > 0
             /\ split.iterations <= CeilDiv(len(split.text), step)
             /\ split.pc = "while" =>
                    /\ split.start = split.iterations * step
                    /\ split.start < len(split.text))
    /\ [][split.pc = "while" /\ split'.pc = "while" =>
              /\ split'.start = split.start + step
              /\ split'.iterations = split.iterations + 1]_vars
    /\ <>(split.pc = "done")

\* the call returned from a text whose length is a multiple of step, after as
\* many iterations as the bound allows, one of which had a blank window
C15_Witness ==
    /\ split.pc = "done"
    /\ len(split.text) > CHUNK_SIZE
    /\ len(split.text) % step = 0
    /\ split.iterations = CeilDiv(len(split.text), step)
    /\ Len(split.chunks) < Len(split.windows)


\* the stored chunks of one page of a document
ChunksOfPage(document_id, page) ==
    {c \in ChunksOf(document_id) : c.page = page}

\* C16: in every state of the store no two chunk rows have the same
\* (document_id, page, chunk_index); the chunk_index values stored for a
\* document and page are 0 .. n-1 for the n rows of that page; and every
\* page number is a position, counted from 1, of a page of the document's
\* file.
C16_ChunkKeysDense ==
    /\ \A c \in document_chunks, o \in document_chunks :
           (c.document_id = o.document_id /\ c.page = o.page
              /\ c.chunk_index = o.chunk_index) => c = o
    /\ \A c \in document_chunks :
           /\ c.document_id \in DOMAIN documents
           /\ c.page \in 1..Len(UPLOAD_DIR[documents[c.document_id].file_path])
           /\ {o.chunk_index : o \in ChunksOfPage(c.document_id, c.page)}
                  = 0..Cardinality(ChunksOfPage(c.document_id, c.page)) - 1

\* a second Parse job of a document returned after replacing the chunks of the
\* first: page 1 has the indices 0 and 1, page 2 the index 0, under new ids
C16_Witness ==
    \E t \in Threads :
        /\ Returned(t, "parse_ok")
        /\ \E c \in worker[t].pre_chunks :
               c.document_id = worker[t].document_id
        /\ worker[t].pre_chunks \cap document_chunks = {}
        /\ Cardinality(ChunksOfPage(worker[t].document_id, 1)) = 2
        /\ Cardinality(ChunksOfPage(worker[t].document_id, 2)) = 1


\* C17: in every state, the states between two storage writes of a job
\* included, a document with an error_message has status failed; so the write
\* that takes a failed document to processing at the start of a Parse job is
\* the write that clears its error_message.
C17_ErrorOnlyWhenFailed ==
    \A d \in DOMAIN documents :
        documents[d].error_message # NULL => documents[d].status = "failed"

\* a Parse job of a document that was failed with a message has run its first
\* write: the document is processing and the message is gone
C17_Witness ==
    \E t \in Threads :
        /\ worker[t].pc = "parse_build"
        /\ worker[t].document_id \in DOMAIN worker[t].pre_documents
        /\ worker[t].pre_documents[worker[t].document_id].status = "failed"
        /\ worker[t].pre_documents[worker[t].document_id].error_message # NULL
        /\ documents[worker[t].document_id].status = "processing"
        /\ documents[worker[t].document_id].error_message = NULL


\* the pages of the document's file give at least one chunk
YieldsChunks(document_id) ==
    _build_chunks(document_id,
                  _extract_pdf_pages(documents[document_id].file_path), 0)
        # <<>>

\* C18, as the specification states it: a worker stopped after the DELETE and
\* before the INSERT of a Parse job, the one point between two writes of the
\* job at which a document that yields chunks has none stored, leaves the
\* document in status ready with zero stored chunks.
C18_StoppedAfterDeleteLeavesReady ==
    \A t \in Threads :
        worker[t].pc = "parse_insert" =>
            /\ ChunksOf(worker[t].document_id) = {}
            /\ documents[worker[t].document_id].status = "ready"

\* C18: a document in status ready whose pages yield at least one chunk has
\* stored chunks, in every state; a worker stopped between two of the three
\* writes leaves the document in status processing, with zero stored chunks
\* after the DELETE and with the new chunks after the INSERT.
C18_StoppedLeavesProcessing ==
    /\ \A d \in DOMAIN documents :
           documents[d].status = "ready" /\ YieldsChunks(d) =>
               ChunksOf(d) # {}
    /\ \A t \in Threads :
           worker[t].pc \in {"parse_insert", "parse_update"} =>
               /\ documents[worker[t].document_id].status = "processing"
               /\ worker[t].pc = "parse_insert" =>
                      /\ YieldsChunks(worker[t].document_id)
                      /\ ChunksOf(worker[t].document_id) = {}
               /\ worker[t].pc = "parse_update" =>
                      Cardinality(ChunksOf(worker[t].document_id))
                          = Len(worker[t].chunks)

\* the second Parse job of a ready document with stored chunks stands between
\* its DELETE and its INSERT: processing, and no chunk stored
C18_Witness ==
    \E t \in Threads :
        /\ worker[t].pc = "parse_insert"
        /\ worker[t].pre_documents[worker[t].document_id].status = "ready"
        /\ \E c \in worker[t].pre_chunks :
               c.document_id = worker[t].document_id
        /\ YieldsChunks(worker[t].document_id)
        /\ ChunksOf(worker[t].document_id) = {}
        /\ documents[worker[t].document_id].status = "processing"


\* the threads start_worker has started
StartedThreads == {t \in Threads : worker[t].pc # "none"}

\* C19: however the calls of start_worker interleave, at most one thread is
\* ever started and so at most one thread takes jobs and is inside a job,
\* the flag is set only when that thread exists, and a
\* thread is started only by a call that found the flag unset while no thread
\* existed: every call that finds the flag set returns without starting one.
C19_OneWorkerThread ==
    /\ [](/\ Cardinality(StartedThreads) <= 1
          /\ Cardinality({t \in Threads : Running(t)}) <= 1
          /\ _worker_started => Cardinality(StartedThreads) = 1)
    /\ [][\A t \in Threads :
            worker[t].pc = "none" /\ worker'[t].pc # "none" =>
                /\ ~_worker_started
                /\ StartedThreads = {}]_vars

\* while the one worker thread is inside a job, a later call of start_worker
\* holds the lock and stands before the test of the flag, which is set
C19_Witness ==
    /\ _worker_started
    /\ \E t \in Threads : Running(t)
    /\ Cardinality(StartedThreads) = 1
    /\ \E c \in Callers : callers[c] = "check"


\* C20: in every state, the states between two storage operations of a job
\* included, a document with status ready and translation_status ready has
\* no stored chunk whose text_zh is NULL or empty.
C20_ReadyMeansTranslated ==
    \A d \in DOMAIN documents :
        (documents[d].status = "ready"
           /\ documents[d].translation_status = "ready") =>
            \A c \in ChunksOf(d) : ~Untranslated(c)

\* a document of three chunks is ready, its translation is ready and every
\* chunk has a translation
C20_Witness ==
    \E d \in DOMAIN documents :
        /\ documents[d].status = "ready"
        /\ documents[d].translation_status = "ready"
        /\ Cardinality(ChunksOf(d)) = 3
        /\ \A c \in ChunksOf(d) : c.text_zh = "zh"

====
